---- MODULE Spec2Model ----
(***************************************************************************)
(* Model of the FIRM loader (src/firm.py): the static memory map tables,   *)
(* the header decoder, the entry-point resolution and the region carving   *)
(* of FirmView.init.                                                       *)
(*                                                                         *)
(* Addresses and sizes are counted in units of 0x1000 bytes: every entry   *)
(* of the two static tables is a multiple of 0x1000, and 2^32 bytes is     *)
(* \h100000 units.  Python integers do not wrap, so none of the sums is    *)
(* reduced modulo 2^32.                                                    *)
(***************************************************************************)
EXTENDS Integers, Sequences, FiniteSets, TLC

VARIABLES FirmHeader_sections, views

vars == <<FirmHeader_sections, views>>

\* Python's None as the value of an integer field.
None == -1

\* The number of firmware images opened in one process.
MaxLoads == 2

(***************************************************************************)
(* Static memory map tables                                                *)
(***************************************************************************)
Segment(address, size, name) == [address |-> address, size |-> size, name |-> name]

\* ARM11_SEGMENTS with the size of "DSP" mistyped as 0x00100000
ARM11_SEGMENTS_DspTooLarge ==
  << Segment(\h00000, \h00010, "BOOTROM"),
     Segment(\h00010, \h00010, "BOOTROM Mirror"),
     Segment(\h10000, \h07E00, "IO"),
     Segment(\h17E00, \h00002, "MPCore Private Region"),
     Segment(\h17E10, \h00001, "N3DS L2C-310 L2 Cache Controller"),
     Segment(\h18000, \h00600, "VRAM"),
     Segment(\h1F000, \h00400, "N3DS Extra WRAM"),
     Segment(\h1FF00, \h00100, "DSP"),
     Segment(\h1FF80, \h00080, "AXI WRAM"),
     Segment(\h20000, \h08000, "FCRAM"),
     Segment(\h28000, \h08000, "N3DS Extra FCRAM"),
     Segment(\hFFFF0, \h00010, "BOOTROM Mirror") >>

ARM11_SEGMENTS ==
  << Segment(\h00000, \h00010, "BOOTROM"),
     Segment(\h00010, \h00010, "BOOTROM Mirror"),
     Segment(\h10000, \h07E00, "IO"),
     Segment(\h17E00, \h00002, "MPCore Private Region"),
     Segment(\h17E10, \h00001, "N3DS L2C-310 L2 Cache Controller"),
     Segment(\h18000, \h00600, "VRAM"),
     Segment(\h1F000, \h00400, "N3DS Extra WRAM"),
     Segment(\h1FF00, \h00080, "DSP"),
     Segment(\h1FF80, \h00080, "AXI WRAM"),
     Segment(\h20000, \h08000, "FCRAM"),
     Segment(\h28000, \h08000, "N3DS Extra FCRAM"),
     Segment(\hFFFF0, \h00010, "BOOTROM Mirror") >>

ARM9_SEGMENTS ==
  << Segment(\h00000, \h08000, "Instruction TCM"),
     Segment(\h01FF8, \h00008, "Instruction TCM Kernel & Process Access"),
     Segment(\h07FF8, \h00008, "Instruction TCM BOOTROM Access"),
     Segment(\h08000, \h00100, "WRAM"),
     Segment(\h08100, \h00080, "N3DS Extra WRAM (enabled by CONFIG)"),
     Segment(\h10000, \h08000, "IO Memory"),
     Segment(\h18000, \h00600, "VRAM"),
     Segment(\h1FF00, \h00080, "DSP"),
     Segment(\h1FF80, \h00080, "AXI WRAM"),
     Segment(\h20000, \h08000, "FCRAM"),
     Segment(\h28000, \h08000, "N3DS Extra FCRAM"),
     Segment(\hFFF00, \h00004, "Data TCM"),
     Segment(\hFFFF0, \h00010, "BOOTROM") >>

\* line 157: the table of the selected core
Mappings(is_arm11) == IF is_arm11 THEN ARM11_SEGMENTS ELSE ARM9_SEGMENTS

(***************************************************************************)
(* Byte sources.  A firmware image is described by the fields the loader   *)
(* reads: the two entry points at 0x8 and 0xC and the four section         *)
(* descriptors that follow.  avail is the number of descriptors the source *)
(* is long enough to hold; an image with avail < 4 is truncated.           *)
(***************************************************************************)
Sec(byte_offset, phys_addr, byte_len) ==
  [byte_offset |-> byte_offset, phys_addr |-> phys_addr, byte_len |-> byte_len]

Slot1 == { Sec(0, 0, 0), Sec(\h200, \h00000, \h10), Sec(\h200, \h1FF7F, 2) }
Slot2 == { Sec(0, 1, 0), Sec(\h400, \h00001, \hE), Sec(\h400, \h07FF8, 8) }
Slot3 == { Sec(0, 0, 0) }
Slot4 == { Sec(0, 0, 0) }
Arm11Entries == { \h00001, \h1FF80 }
Arm9Entries == { \h0000F, \h07FF8 }

File(arm11, arm9, secs, avail) ==
  [arm11 |-> arm11, arm9 |-> arm9, secs |-> secs, avail |-> avail]

FullFiles ==
  { File(e11, e9, <<s1, s2, s3, s4>>, 4) :
      e11 \in Arm11Entries, e9 \in Arm9Entries,
      s1 \in Slot1, s2 \in Slot2, s3 \in Slot3, s4 \in Slot4 }

TruncatedFiles ==
  { File(\h00001, \h0000F,
         <<Sec(\h200, \h00000, \h10), Sec(\h400, \h00001, \hE), Sec(0, 0, 0), Sec(0, 0, 0)>>,
         n) : n \in 0..3 }

Files == FullFiles \cup TruncatedFiles

\* What BinaryReader does when a read runs past the end of the source: it
\* hands back None, or it raises.
EofModes == { "none", "raise" }

\* The answers of get_choice_input for the options ["ARM9", "ARM11"].
Answers == { 0, 1 }

(***************************************************************************)
(* Header decoder                                                          *)
(***************************************************************************)
\* lines 51-56: one descriptor read at its place in the source
FirmSectionHeader(f, idx) ==
  IF idx <= f.avail THEN f.secs[idx] ELSE Sec(None, None, None)

\* lines 65-71: the decoded header and the class-level list after the four
\* appends; when the reader raises, the descriptors read so far stay appended
\* and no header object exists.
FirmHeader(sections, f, eof) ==
  IF f.avail < 4 /\ eof = "raise"
  THEN [raised |-> TRUE,
        header |-> << >>,
        sections |-> sections \o [idx \in 1..f.avail |-> FirmSectionHeader(f, idx)]]
  ELSE [raised |-> FALSE,
        header |-> << [arm11_entrypoint |-> f.arm11, arm9_entrypoint |-> f.arm9] >>,
        sections |-> sections \o [idx \in 1..4 |-> FirmSectionHeader(f, idx)]]

\* line 63: a header has no sections attribute of its own, so header.sections
\* is the list of the class
SectionsOf(header, class_sections) == class_sections

(***************************************************************************)
(* Entry-point resolution                                                  *)
(***************************************************************************)
Msg(severity, text) == [severity |-> severity, text |-> text]

\* lines 125 and 129
Contains(start, end, entrypoint) == start <= entrypoint /\ end > entrypoint

\* lines 118-132: the body of the loop for one section
ScanStep(section, header, acc) ==
  IF section.byte_len = 0 THEN acc
  ELSE IF section.phys_addr = None \/ section.byte_len = None
  THEN [acc EXCEPT !.type_error = TRUE]
  ELSE
    LET start == section.phys_addr
        end == start + section.byte_len
        in9 == Contains(start, end, header.arm9_entrypoint)
        in11 == Contains(start, end, header.arm11_entrypoint)
    IN [acc EXCEPT
          !.arm9_header = IF in9 THEN <<section>> ELSE @,
          !.arm11_header = IF in11 THEN <<section>> ELSE @,
          !.msgs = IF in9 /\ in11
                   THEN Append(@, Msg("warn", "ARM9 and ARM11 sections overlap"))
                   ELSE @]

\* lines 114-132: the loop over header.sections, left at the first TypeError
RECURSIVE ScanSections(_, _, _, _)
ScanSections(sections, idx, header, acc) ==
  IF idx > Len(sections) \/ acc.type_error THEN acc
  ELSE ScanSections(sections, idx + 1, header, ScanStep(sections[idx], header, acc))

ScanStart == [arm9_header |-> << >>, arm11_header |-> << >>, msgs |-> << >>, type_error |-> FALSE]

\* line 144 with the comparison turned round
ChoiceIsArm11_Flipped(answer) == answer = 0

\* line 144
ChoiceIsArm11(answer) == answer # 0

\* lines 134-149: the section and the core that are loaded
Resolve(scan, is_arm11, answer) ==
  LET none_msgs == IF scan.arm9_header = << >> /\ scan.arm11_header = << >>
                   THEN Append(scan.msgs, Msg("error", "FIRM contains no valid section to load"))
                   ELSE scan.msgs
  IN IF scan.arm9_header # << >> /\ scan.arm11_header = << >>
     THEN [status |-> "ok", section_header |-> scan.arm9_header, is_arm11 |-> is_arm11,
           choice |-> << >>,
           msgs |-> Append(none_msgs, Msg("info", "FIRM contains only an ARM9 section, loading it"))]
     ELSE IF scan.arm9_header = << >> /\ scan.arm11_header # << >>
     THEN [status |-> "ok", section_header |-> scan.arm11_header, is_arm11 |-> is_arm11,
           choice |-> << >>,
           msgs |-> Append(none_msgs, Msg("info", "FIRM contains only an ARM11 section, loading it"))]
     ELSE
       LET chosen_arm11 == ChoiceIsArm11(answer)
           section_header == IF chosen_arm11 THEN scan.arm11_header ELSE scan.arm9_header
       IN IF section_header = << >>
          THEN [status |-> "AttributeError", section_header |-> section_header,
                is_arm11 |-> chosen_arm11, choice |-> <<answer>>, msgs |-> none_msgs]
          ELSE [status |-> "ok", section_header |-> section_header,
                is_arm11 |-> chosen_arm11, choice |-> <<answer>>,
                msgs |-> Append(none_msgs, Msg("info", "Loading FIRM from file"))]

(***************************************************************************)
(* Registration and region carving                                         *)
(***************************************************************************)
Call(call, address, size, data_offset, data_length, name) ==
  [call |-> call, address |-> address, size |-> size,
   data_offset |-> data_offset, data_length |-> data_length, name |-> name]

\* lines 164, 170, 172
UserSegment(address, size) == Call("add_user_segment", address, size, 0, 0, "")

\* line 174
UserSection(mapping) == Call("add_user_section", mapping.address, mapping.size, 0, 0, mapping.name)

\* lines 95-96 and 152
EntryPoint(header, is_arm11) ==
  IF is_arm11 THEN header.arm11_entrypoint ELSE header.arm9_entrypoint

\* lines 151-155
Primary(section_header, entrypoint) ==
  << Call("add_auto_segment", section_header.phys_addr, section_header.byte_len,
          section_header.byte_offset, section_header.byte_len, ""),
     Call("add_entry_point", entrypoint, 0, 0, 0, ""),
     Call("add_function", entrypoint, 0, 0, 0, ""),
     Call("define_auto_symbol", entrypoint, 0, 0, 0, "_start") >>

\* line 159 testing for any overlap instead of containment
FullyContains_AnyOverlap(mapping, section_header) ==
  /\ mapping.address < section_header.phys_addr + section_header.byte_len
  /\ mapping.address + mapping.size > section_header.phys_addr

\* line 159
FullyContains(mapping, section_header) ==
  /\ mapping.address <= section_header.phys_addr
  /\ mapping.address + mapping.size >= section_header.phys_addr + section_header.byte_len

\* lines 160-164 with lower_length >= 0 for lower_length > 0
LowerRemainder_EmptyKept(mapping, section_header) ==
  LET lower_start == mapping.address
      lower_length == section_header.phys_addr - mapping.address
  IN IF lower_length >= 0 THEN << UserSegment(lower_start, lower_length) >> ELSE << >>

\* lines 160-164
LowerRemainder(mapping, section_header) ==
  LET lower_start == mapping.address
      lower_length == section_header.phys_addr - mapping.address
  IN IF lower_length > 0 THEN << UserSegment(lower_start, lower_length) >> ELSE << >>

\* lines 166-170
UpperRemainder(mapping, section_header) ==
  LET upper_start == section_header.phys_addr + section_header.byte_len
      upper_length == (mapping.address + mapping.size) - upper_start
  IN IF upper_length > 0 THEN << UserSegment(upper_start, upper_length) >> ELSE << >>

\* lines 159-174: the body of the loop for one mapping
CarveMapping(mapping, section_header) ==
  (IF FullyContains(mapping, section_header)
   THEN LowerRemainder(mapping, section_header) \o UpperRemainder(mapping, section_header)
   ELSE << UserSegment(mapping.address, mapping.size) >>)
  \o << UserSection(mapping) >>

\* lines 158-174
RECURSIVE Carve(_, _, _)
Carve(mappings, idx, section_header) ==
  IF idx > Len(mappings) THEN << >>
  ELSE CarveMapping(mappings[idx], section_header) \o Carve(mappings, idx + 1, section_header)

(***************************************************************************)
(* Views                                                                   *)
(***************************************************************************)
\* lines 76-78 and 98-102: a view as constructed, before init
NewView(f) ==
  [raw |-> f, header |-> << >>, section_header |-> << >>, is_arm11 |-> FALSE,
   status |-> "new", choice |-> << >>, msgs |-> << >>, calls |-> << >>]

\* lines 108-175: init of view v with the class-level list as it stands
InitView(v, class_sections, answer, eof) ==
  LET dec == FirmHeader(class_sections, v.raw, eof)
  IN IF dec.raised
     THEN [view |-> [v EXCEPT !.status = "ReadError"], sections |-> dec.sections]
     ELSE
       LET header == dec.header[1]
           scan == ScanSections(SectionsOf(header, dec.sections), 1, header, ScanStart)
           v1 == [v EXCEPT !.header = dec.header, !.msgs = scan.msgs]
       IN IF scan.type_error
          THEN [view |-> [v1 EXCEPT !.status = "TypeError"], sections |-> dec.sections]
          ELSE
            LET res == Resolve(scan, v.is_arm11, answer)
                v2 == [v1 EXCEPT !.status = res.status, !.section_header = res.section_header,
                                 !.is_arm11 = res.is_arm11, !.choice = res.choice,
                                 !.msgs = res.msgs]
            IN IF res.status # "ok"
               THEN [view |-> v2, sections |-> dec.sections]
               ELSE [view |-> [v2 EXCEPT !.calls =
                                 Primary(res.section_header[1], EntryPoint(header, res.is_arm11))
                                 \o Carve(Mappings(res.is_arm11), 1, res.section_header[1])],
                     sections |-> dec.sections]

\* lines 95-96
perform_get_entry_point(v) == EntryPoint(v.header[1], v.is_arm11)

(***************************************************************************)
(* The process: images are opened and initialised one after the other      *)
(***************************************************************************)
Init ==
  /\ FirmHeader_sections = << >>
  /\ views = << >>

\* lines 98-102: the host constructs a view on an image
Open(f) ==
  /\ Len(views) < MaxLoads
  /\ IF views = << >> THEN TRUE ELSE views[Len(views)].status # "new"
  /\ views' = Append(views, NewView(f))
  /\ UNCHANGED FirmHeader_sections

\* lines 108-175: the host calls init on the view it constructed
InitCall(answer, eof) ==
  /\ views # << >>
  /\ views[Len(views)].status = "new"
  /\ LET out == InitView(views[Len(views)], FirmHeader_sections, answer, eof)
     IN /\ views' = [views EXCEPT ![Len(views)] = out.view]
        /\ FirmHeader_sections' = out.sections

Next ==
  \/ \E f \in Files : Open(f)
  \/ \E answer \in Answers, eof \in EofModes : InitCall(answer, eof)

Spec == Init /\ [][Next]_vars

(***************************************************************************)
(* Vocabulary of the properties                                            *)
(***************************************************************************)
Range(seq) == { seq[i] : i \in 1..Len(seq) }

Last == views[Len(views)]

\* init has run on the view opened last
Ran == views # << >> /\ Last.status # "new"

\* init has run on the view opened last and its scan of the sections ended
Scanned == Ran /\ Last.status \in { "ok", "AttributeError" }

\* init has run to its end on the view opened last
Completed == Ran /\ Last.status = "ok"

\* a section with byteLength > 0 whose half-open range holds entry point e
Holds(section, e) ==
  /\ section.byte_len > 0
  /\ section.phys_addr <= e
  /\ e < section.phys_addr + section.byte_len

\* the sections among secs that hold entry point e
Candidates(secs, e) == { section \in Range(secs) : Holds(section, e) }

Logged(v, severity) == \E m \in Range(v.msgs) : m.severity = severity

\* the calls of the carving loop made for the idx-th entry of the table: the
\* calls after the previous name marker, up to the idx-th name marker
MarkerPositions(calls) ==
  SelectSeq([k \in 1..Len(calls) |-> k], LAMBDA k : calls[k].call = "add_user_section")

Chunk(calls, idx) ==
  LET at == MarkerPositions(calls)
  IN IF idx > Len(at) THEN << >>
     ELSE SubSeq(calls, IF idx = 1 THEN 5 ELSE at[idx - 1] + 1, at[idx])

Table(v) == IF v.is_arm11 THEN ARM11_SEGMENTS ELSE ARM9_SEGMENTS

LoadStart(v) == v.section_header[1].phys_addr
LoadEnd(v) == v.section_header[1].phys_addr + v.section_header[1].byte_len

\* region R holds the whole loaded range of view v
Encloses(R, v) == R.address <= LoadStart(v) /\ R.address + R.size >= LoadEnd(v)

RangeCall(address, size) == Call("add_user_segment", address, size, 0, 0, "")
MarkerCall(R) == Call("add_user_section", R.address, R.size, 0, 0, R.name)

(***************************************************************************)
(* C1                                                                      *)
(***************************************************************************)
\* the image of view v is whole and none of its sections holds either entry point
NoCandidate(v) ==
  /\ v.raw.avail = 4
  /\ Candidates(v.raw.secs, v.raw.arm9) = { }
  /\ Candidates(v.raw.secs, v.raw.arm11) = { }

\* C1: when neither entry point falls inside a section with byteLength > 0,
\* init fails: an error is logged, the choice callback is not invoked and
\* nothing is registered.
C1_NoLoadableSection ==
  \A i \in 1..Len(views) :
    (views[i].status # "new" /\ NoCandidate(views[i]))
      => /\ views[i].status # "ok"
         /\ Logged(views[i], "error")
         /\ views[i].choice = << >>
         /\ views[i].calls = << >>

(***************************************************************************)
(* C2                                                                      *)
(***************************************************************************)
\* C2: when exactly one of the two candidates is found, that candidate is
\* loaded for its own core (its entry point, its table) and the choice
\* callback is not invoked.
C2_SingleCandidate ==
  \A i \in 1..Len(views) :
    LET v == views[i]
        c9 == Candidates(v.raw.secs, v.raw.arm9)
        c11 == Candidates(v.raw.secs, v.raw.arm11)
    IN (v.status # "new" /\ v.raw.avail = 4 /\ ((c9 = { }) # (c11 = { })))
         => /\ v.status = "ok"
            /\ v.choice = << >>
            /\ v.is_arm11 = (c11 # { })
            /\ v.section_header # << >>
            /\ v.section_header[1] \in c9 \cup c11
            /\ v.calls[2].address = (IF c11 # { } THEN v.raw.arm11 ELSE v.raw.arm9)

C4_FullContainment ==
  Completed =>
    \A k \in 1..Len(Table(Last)) :
      LET R == Table(Last)[k]
          lower == IF LoadStart(Last) > R.address
                   THEN << RangeCall(R.address, LoadStart(Last) - R.address) >> ELSE << >>
          upper == IF LoadEnd(Last) < R.address + R.size
                   THEN << RangeCall(LoadEnd(Last), R.address + R.size - LoadEnd(Last)) >>
                   ELSE << >>
      IN Encloses(R, Last)
           => /\ Chunk(Last.calls, k) = lower \o upper \o << MarkerCall(R) >>
              /\ \A c \in Range(Chunk(Last.calls, k)) :
                   c.call = "add_user_segment"
                     => ~(c.address <= LoadStart(Last) /\ c.address + c.size >= LoadEnd(Last))

\* a region of the table equals the loaded range, and another one holds it
\* with room on both sides
C4_Witness ==
  /\ Completed
  /\ \E k \in 1..Len(Table(Last)) :
       /\ Table(Last)[k].address = LoadStart(Last)
       /\ Table(Last)[k].address + Table(Last)[k].size = LoadEnd(Last)
       /\ Chunk(Last.calls, k) = << MarkerCall(Table(Last)[k]) >>
  /\ \E k \in 1..Len(Table(Last)) :
       /\ Table(Last)[k].address < LoadStart(Last)
       /\ Table(Last)[k].address + Table(Last)[k].size >= LoadEnd(Last)

(***************************************************************************)
(* C5                                                                      *)
(***************************************************************************)
\* C5: every region of the selected table that does not hold the whole
\* loaded range is emitted as one memory range with its own base and size
\* followed by one name marker with its own base, size and name, at its
\* place in table order.
C5_PassThrough ==
  Completed =>
    /\ Len(MarkerPositions(Last.calls)) = Len(Table(Last))
    /\ \A k \in 1..Len(Table(Last)) :
         LET R == Table(Last)[k]
         IN ~Encloses(R, Last)
              => Chunk(Last.calls, k) = << RangeCall(R.address, R.size), MarkerCall(R) >>

\* the loaded range straddles the border of two regions of the table and is
\* held by neither
C5_Witness ==
  /\ Completed
  /\ \E k \in 1..Len(Table(Last)) :
       LET R == Table(Last)[k]
       IN /\ ~Encloses(R, Last)
          /\ R.address < LoadEnd(Last)
          /\ LoadStart(Last) < R.address + R.size
          /\ Chunk(Last.calls, k) = << RangeCall(R.address, R.size), MarkerCall(R) >>

(***************************************************************************)
(* C6                                                                      *)
(***************************************************************************)
\* C6: every decoded header holds exactly 4 section descriptors, the 4 read
\* from its own byte source in file order, however many headers were decoded
\* before or after it.
C6_OwnSections ==
  \A i \in 1..Len(views) :
    views[i].header # << >>
      => /\ Len(SectionsOf(views[i].header[1], FirmHeader_sections)) = 4
         /\ SectionsOf(views[i].header[1], FirmHeader_sections) =
              [idx \in 1..4 |-> FirmSectionHeader(views[i].raw, idx)]

(***************************************************************************)
(* C7                                                                      *)
(***************************************************************************)
\* what init gives for image f and callback answer a in a process that has
\* decoded nothing before
Fresh(f, answer, eof) == InitView(NewView(f), << >>, answer, eof).view

\* C7: an init gives the result that the same image and the same callback
\* answer give in a fresh process (same outcome, chosen section, core and
\* registrations), whatever was initialised earlier.
C7_Deterministic ==
  Ran =>
    \E eof \in EofModes :
      \A answer \in Answers :
        (Last.choice = << >> \/ Last.choice = <<answer>>)
          => LET fresh == Fresh(Last.raw, answer, eof)
             IN /\ fresh.status = Last.status
                /\ fresh.section_header = Last.section_header
                /\ fresh.is_arm11 = Last.is_arm11
                /\ fresh.calls = Last.calls

(***************************************************************************)
(* C8                                                                      *)
(***************************************************************************)
\* C8: when the source ends before the third descriptor is complete (it is
\* shorter than 0x8C bytes), decoding fails on the read, no header comes
\* back and init registers nothing.
C8_Truncated ==
  \A i \in 1..Len(views) :
    (views[i].status # "new" /\ views[i].raw.avail <= 2)
      => /\ views[i].status = "ReadError"
         /\ views[i].header = << >>
         /\ views[i].calls = << >>

(***************************************************************************)
(* C9                                                                      *)
(***************************************************************************)
Disjoint(a, b) == a.address + a.size <= b.address \/ b.address + b.size <= a.address

Inside(a, b) == b.address <= a.address /\ a.address + a.size <= b.address + b.size

\* 2^32 bytes
AddressSpaceEnd == \h100000

EndsInAddressSpace(table) ==
  \A k \in 1..Len(table) : table[k].address + table[k].size <= AddressSpaceEnd

\* C9 as stated: in the table an init carves with, whichever of the two it
\* is, the ranges of any two distinct entries are disjoint, and every range
\* ends at or below 2^32.
C9_Disjoint ==
  \A i \in 1..Len(views) :
    views[i].status = "ok"
      => LET table == Mappings(views[i].is_arm11)
         IN /\ \A j, k \in 1..Len(table) : j # k => Disjoint(table[j], table[k])
            /\ EndsInAddressSpace(table)

\* C9 as amended: the ARM11 ranges are pairwise disjoint; the ARM9 ranges are
\* pairwise disjoint except that the first entry, "Instruction TCM", holds
\* the second and the third; every range of both tables ends at or below 2^32.
C9_DisjointButItcm ==
  \A i \in 1..Len(views) :
    views[i].status = "ok"
      => LET table == Mappings(views[i].is_arm11)
         IN /\ \A j, k \in 1..Len(table) :
                 j < k => IF ~views[i].is_arm11 /\ j = 1 /\ k \in { 2, 3 }
                          THEN Inside(table[k], table[j]) /\ table[j].name = "Instruction TCM"
                          ELSE Disjoint(table[j], table[k])
            /\ EndsInAddressSpace(table)

\* an init has registered the name markers of the ARM9 table, two of them
\* inside the range of the first, and another the markers of the ARM11 table
C9_Witness ==
  /\ Len(views) = 2
  /\ Completed
  /\ views[1].status = "ok"
  /\ views[1].is_arm11
  /\ ~Last.is_arm11
  /\ \E j, k \in 1..Len(MarkerPositions(Last.calls)) :
       LET a == Last.calls[MarkerPositions(Last.calls)[j]]
           b == Last.calls[MarkerPositions(Last.calls)[k]]
       IN j # k /\ Inside(b, a) /\ a.name = "Instruction TCM"
  /\ Len(MarkerPositions(views[1].calls)) = Len(ARM11_SEGMENTS)

(***************************************************************************)
(* C10                                                                     *)
(***************************************************************************)
\* C10: whenever init completes, the address registered as entry point and
\* as _start, which perform_get_entry_point returns, lies inside the loaded
\* section, and the table carved is the one of the core of that entry point.
C10_EntryInsideSection ==
  \A i \in 1..Len(views) :
    views[i].status = "ok"
      => LET v == views[i]
             entry == perform_get_entry_point(v)
         IN /\ v.calls[2].address = entry
            /\ v.calls[4].address = entry
            /\ LoadStart(v) <= entry
            /\ entry < LoadEnd(v)
            /\ entry = (IF v.is_arm11 THEN v.raw.arm11 ELSE v.raw.arm9)
            /\ \A k \in 1..Len(Table(v)) :
                 Chunk(v.calls, k)[Len(Chunk(v.calls, k))] = MarkerCall(Table(v)[k])
====
